---- MODULE Spec2Model ----
(***************************************************************************)
(* A model of test-gsmtc (src/src/main.rs): a one-shot dump of the current *)
(* media session of the Windows GlobalSystemMediaTransportControls API.    *)
(*                                                                         *)
(* The platform is the environment.  Every platform call is an input: its  *)
(* result is Err (the call failed) or Ok(v).  Standard output is a         *)
(* sequence of lines, each line a string built as the format strings of    *)
(* the source build it.  A printer is an operator from the platform's      *)
(* answers and the indentation depth to the lines it printed and the way   *)
(* it ended: Ok, Err (an error returned with ?), or Panic (unreachable!).  *)
(***************************************************************************)
EXTENDS Integers, Sequences, FiniteSets, TLC

VARIABLES
    pc,       \* position of main, or the harness' position
    status,   \* outcome of RequestAsync, GetCurrentSession, SourceAppUserModelId
    out,      \* standard output, a sequence of lines
    stderr,   \* standard error, a sequence of lines
    exit,     \* <<>> while the process runs, <<code>> once it has exited
    called,   \* the printers called so far, in call order
    depth,    \* the depth each printer was called with
    ret,      \* what each printer printed and how it ended
    mp,       \* the platform's answers to the media-properties reads
    pb,       \* the platform's answers to the playback-info reads
    tl        \* the platform's answers to the timeline-properties reads

vars == <<pc, status, out, stderr, exit, called, depth, ret, mp, pb, tl>>

(***************************************************************************)
(* Bounds of the model.                                                    *)
(***************************************************************************)
MaxDepth == 2       \* the harness calls a printer with depth 0..MaxDepth
MaxGenres == 2      \* a genre list holds 0..MaxGenres genres
MaxEnum == 6        \* an enum read yields an integer in MinEnum..MaxEnum
MinEnum == 0 - 1

(***************************************************************************)
(* Results of platform calls (windows::core::Result<T>).                   *)
(***************************************************************************)
Err == <<>>
Ok(v) == <<v>>
IsOk(r) == r # Err

(***************************************************************************)
(* How a printer ended.                                                    *)
(***************************************************************************)
Running == [tag |-> "Run", e |-> ""]
Returned == [tag |-> "Ok", e |-> ""]
\* the error of the platform call `c`; e is its display text
Failed(c) == [tag |-> "Err", e |-> "<error of " \o c \o ">"]
Panicked == [tag |-> "Panic", e |-> "internal error: entered unreachable code"]
NotCalled == [tag |-> "None", e |-> ""]

\* The value of an arm that is unreachable!(): no string, the thread panics.
Unreachable == "<unreachable>"

(***************************************************************************)
(* Formatting.                                                             *)
(***************************************************************************)
RECURSIVE Spaces(_)
Spaces(n) == IF n <= 0 THEN "" ELSE " " \o Spaces(n - 1)

\* " ".chars().cycle().take(depth * 4).collect::<String>()
Prefix(d) == Spaces(d * 4)

\* Display of a bool
Bool(b) == IF b THEN "true" ELSE "false"

\* {:.02} of a non-negative f64 given in hundredths
Fmt2(h) == ToString(h \div 100) \o "." \o (IF h % 100 < 10 THEN "0" ELSE "")
               \o ToString(h % 100)

RECURSIVE Zeros(_)
Zeros(n) == IF n <= 0 THEN "" ELSE "0" \o Zeros(n - 1)

\* the decimal digits of n >= 0, padded with zeros to nine digits
Pad9(n) == Zeros(9 - Len(ToString(n))) \o ToString(n)

\* Duration::from(TimeSpan).as_nanos(): a TimeSpan counts 100 ns ticks (an i64),
\* and the conversion is Duration::from_nanos((ticks * 100) as u64): a negative
\* count wraps to 2^64 + ticks * 100.  2^64 = 18 446744073 709551616 is kept in
\* groups of nine digits, the product being within 32 bits here.
AsNanos(ticks) ==
    LET p == ticks * 100
        q == 709551616 + p
        borrow == IF q >= 0 THEN 0 ELSE IF q + 1000000000 >= 0 THEN 1 ELSE 2
        low == IF borrow = 0 THEN q
               ELSE IF borrow = 1 THEN q + 1000000000
               ELSE (q + 1000000000) + 1000000000
    IN IF p >= 0 THEN ToString(p)
       ELSE "18" \o Pad9(446744073 - borrow) \o Pad9(low)

(***************************************************************************)
(* Enum rendering.                                                         *)
(***************************************************************************)
playback_type_str_fallback(t) ==
    CASE t = 0 -> "Unknown"
      [] t = 1 -> "Music"
      [] t = 2 -> "Video"
      [] t = 3 -> "Image"
      [] OTHER -> "Unknown"

playback_type_str(t) ==
    CASE t = 0 -> "Unknown"
      [] t = 1 -> "Music"
      [] t = 2 -> "Video"
      [] t = 3 -> "Image"
      [] OTHER -> Unreachable

auto_repeat_mode_str(v) ==
    CASE v = 0 -> "None"
      [] v = 1 -> "Track"
      [] v = 2 -> "List"
      [] OTHER -> Unreachable

playback_status_str(v) ==
    CASE v = 0 -> "Closed"
      [] v = 1 -> "Opened"
      [] v = 2 -> "Changing"
      [] v = 3 -> "Stopped"
      [] v = 4 -> "Playing"
      [] v = 5 -> "Paused"
      [] OTHER -> Unreachable

(***************************************************************************)
(* print_timeline_properties                                               *)
(***************************************************************************)
TimelineReads == <<"start_time", "end_time", "max_seek_time", "min_seek_time",
                   "position", "last_updated_time">>

\* The first read of `names`, in order, that the platform fails; 0 when none.
FirstFailed(x, names) ==
    LET bad == {i \in 1..Len(names) : x[names[i]] = Err}
    IN IF bad = {} THEN 0 ELSE CHOOSE i \in bad : \A j \in bad : i <= j

\* the i-th println! of print_timeline_properties
TimelineLine(t, prefix, i) ==
    prefix \o TimelineReads[i] \o ": " \o
        (IF TimelineReads[i] = "last_updated_time"
         THEN ToString(t[TimelineReads[i]][1])
         ELSE AsNanos(t[TimelineReads[i]][1]))

print_timeline_properties_eager(t, d) ==
    LET k == FirstFailed(t, TimelineReads)
        n == IF k = 0 THEN Len(TimelineReads) ELSE k - 1
    IN IF ~t.get THEN [lines |-> <<>>, res |-> Failed("GetTimelineProperties")]
       ELSE [lines |-> [i \in 1..n |-> TimelineLine(t, Prefix(d), i)],
             res |-> IF k = 0 THEN Returned ELSE Failed(TimelineReads[k])]

print_timeline_properties(t, d) ==
    LET k == FirstFailed(t, TimelineReads)
    IN IF ~t.get THEN [lines |-> <<>>, res |-> Failed("GetTimelineProperties")]
       ELSE IF k # 0 THEN [lines |-> <<>>, res |-> Failed(TimelineReads[k])]
       ELSE [lines |-> [i \in 1..Len(TimelineReads) |-> TimelineLine(t, Prefix(d), i)],
             res |-> Returned]

(***************************************************************************)
(* print_playback_controls                                                 *)
(***************************************************************************)
ControlFlags == <<"is_channel_down_enabled", "is_channel_up_enabled",
                  "is_fast_forward_enabled", "is_next_enabled", "is_pause_enabled",
                  "is_playback_position_enabled", "is_playback_rate_enabled",
                  "is_play_enabled", "is_play_pause_toggle_enabled",
                  "is_previous_enabled", "is_record_enabled", "is_repeat_enabled",
                  "is_rewind_enabled", "is_shuffle_enabled", "is_stop_enabled">>

\* flags: the platform's answers to the 15 flag reads, in the order read
print_playback_controls(flags, d) ==
    LET prefix == Prefix(d)
        bad == {i \in 1..Len(ControlFlags) : flags[i] = Err}
    IN IF bad # {}
       THEN [lines |-> <<>>,
             res |-> Failed(ControlFlags[CHOOSE i \in bad : \A j \in bad : i <= j])]
       ELSE [lines |-> [i \in 1..Len(ControlFlags) |->
                           prefix \o ControlFlags[i] \o ": " \o Bool(flags[i][1])],
             res |-> Returned]

(***************************************************************************)
(* print_playback_info                                                     *)
(***************************************************************************)
PlaybackFields_status_first ==
    <<"auto_repeat_mode", "controls", "playback_status", "is_shuffle_active",
      "playback_rate", "playback_type">>

\* the fields in the order print_playback_info reads and prints them
PlaybackFields ==
    <<"auto_repeat_mode", "controls", "is_shuffle_active", "playback_rate",
      "playback_status", "playback_type">>

Emit(s, line) == [s EXCEPT !.lines = Append(@, line)]

\* an enum field: one quoted line, or a panic when the name is unreachable
EnumStep(s, prefix, label, name) ==
    IF name = Unreachable THEN [s EXCEPT !.res = Panicked]
    ELSE Emit(s, prefix \o label \o ": \"" \o name \o "\"")

\* one `if let Ok(..) = ..` block of print_playback_info
PlaybackStep(s, f, p, d) ==
    LET prefix == Prefix(d) IN
    IF s.res.tag # "Run" \/ p[f] = Err THEN s
    ELSE CASE f = "auto_repeat_mode" ->
                EnumStep(s, prefix, f, auto_repeat_mode_str(p[f][1]))
           [] f = "controls" ->
                LET c == print_playback_controls(p.flags, d + 1)
                    t == [s EXCEPT !.lines = (@ \o <<prefix \o "controls:">>) \o c.lines]
                IN IF c.res.tag = "Ok" THEN t ELSE [t EXCEPT !.res = c.res]
           [] f = "is_shuffle_active" ->
                Emit(s, prefix \o "is_shuffle_active: " \o Bool(p[f][1]))
           [] f = "playback_rate" ->
                Emit(s, prefix \o "playback_rate: " \o Fmt2(p[f][1]))
           [] f = "playback_status" ->
                EnumStep(s, prefix, f, playback_status_str(p[f][1]))
           [] f = "playback_type" ->
                EnumStep(s, prefix, f, playback_type_str(p[f][1]))

RECURSIVE PlaybackFrom(_, _, _, _)
PlaybackFrom(s, i, p, d) ==
    IF i > Len(PlaybackFields) THEN s
    ELSE PlaybackFrom(PlaybackStep(s, PlaybackFields[i], p, d), i + 1, p, d)

print_playback_info(p, d) ==
    IF ~p.get THEN [lines |-> <<>>, res |-> Failed("GetPlaybackInfo")]
    ELSE LET s == PlaybackFrom([lines |-> <<>>, res |-> Running], 1, p, d)
         IN IF s.res.tag = "Run" THEN [s EXCEPT !.res = Returned] ELSE s

(***************************************************************************)
(* print_media_properties                                                  *)
(***************************************************************************)
\* the reads of lines 150-159, in order
MediaReads == <<"album_artist", "album_title", "album_track_count", "artist",
                "genres", "playback_type", "subtitle", "thumbnail", "title",
                "track_number">>

FirstFailedRead_lazy_thumbnail(m) ==
    LET names == SelectSeq(MediaReads, LAMBDA n : n # "thumbnail")
        k == FirstFailed(m, names)
    IN IF ~m.fetch THEN "TryGetMediaPropertiesAsync"
       ELSE IF k = 0 THEN "" ELSE names[k]

\* the read that makes print_media_properties return before its first println!,
\* "" when the fetch and the ten reads all succeed
FirstFailedRead(m) ==
    LET k == FirstFailed(m, MediaReads)
    IN IF ~m.fetch THEN "TryGetMediaPropertiesAsync"
       ELSE IF k = 0 THEN "" ELSE MediaReads[k]

GenreBullet(prefix, genre) == prefix \o "     - \"" \o genre \o "\""

print_media_properties(m, d) ==
    LET prefix == Prefix(d)
        f == FirstFailedRead(m)
        genres == m.genres[1]
        head == << prefix \o "album_artist: \"" \o m.album_artist[1] \o "\"",
                   prefix \o "album_title: \"" \o m.album_title[1] \o "\"",
                   prefix \o "album_track_count: " \o ToString(m.album_track_count[1]),
                   prefix \o "artist: \"" \o m.artist[1] \o "\"",
                   prefix \o "genres:" >>
                \o [i \in 1..Len(genres) |-> GenreBullet(prefix, genres[i])]
        name == playback_type_str(m.playback_type[1])
        mid == head \o << prefix \o "playback_type: " \o name,
                          prefix \o "subtitle: " \o m.subtitle[1],
                          prefix \o "thumbnail:" >>
        ct == prefix \o "    content_type: " \o m.content_type[1]
        size == prefix \o "    size: " \o ToString(m.size[1])
    IN IF f # "" THEN [lines |-> <<>>, res |-> Failed(f)]
       ELSE IF name = Unreachable THEN [lines |-> head, res |-> Panicked]
       ELSE IF m.content_type = Err THEN [lines |-> mid, res |-> Failed("ContentType")]
       ELSE IF m.size = Err THEN [lines |-> Append(mid, ct), res |-> Failed("Size")]
       ELSE [lines |-> mid \o << ct, size,
                                 prefix \o "title: " \o m.title[1],
                                 prefix \o "track_number: " \o ToString(m.track_number[1]) >>,
             res |-> Returned]

(***************************************************************************)
(* The platform's possible answers.                                        *)
(***************************************************************************)
Opt(S) == {Err} \cup {Ok(v) : v \in S}
EnumDom == MinEnum..MaxEnum

GenreName(i) == "genre" \o ToString(i)
GenreLists == {[i \in 1..n |-> GenreName(i)] : n \in 0..MaxGenres}

BaseMedia ==
    [fetch |-> TRUE, album_artist |-> Ok("Band"), album_title |-> Ok("Album"),
     album_track_count |-> Ok(10), artist |-> Ok("Artist"), genres |-> Ok(<<>>),
     playback_type |-> Ok(1), subtitle |-> Ok("Sub"), thumbnail |-> Ok("stream"),
     content_type |-> Ok("image/png"), size |-> Ok(1024), title |-> Ok("Song"),
     track_number |-> Ok(1)]

MediaInputs ==
    [fetch : {TRUE}, album_artist : Opt({"Band"}), album_title : Opt({"Album"}),
     album_track_count : Opt({10}), artist : Opt({"Artist"}),
     genres : Opt(GenreLists), playback_type : Opt(EnumDom),
     subtitle : Opt({"Sub"}), thumbnail : Opt({"stream"}),
     content_type : Opt({"image/png"}), size : Opt({1024}), title : Opt({"Song"}),
     track_number : Opt({1})]
    \cup {[BaseMedia EXCEPT !.fetch = FALSE]}

\* the 15 flag reads: all answered, or the k-th failing
FlagAnswers ==
    {[i \in 1..Len(ControlFlags) |-> Ok(i % 2 = 1)]}
    \cup {[i \in 1..Len(ControlFlags) |-> IF i = k THEN Err ELSE Ok(TRUE)] :
             k \in 1..Len(ControlFlags)}

BasePlayback ==
    [get |-> TRUE, auto_repeat_mode |-> Ok(1), controls |-> Ok("controls"),
     flags |-> [i \in 1..Len(ControlFlags) |-> Ok(i % 2 = 1)],
     is_shuffle_active |-> Ok(TRUE), playback_rate |-> Ok(100),
     playback_status |-> Ok(4), playback_type |-> Ok(1)]

PlaybackInputs ==
    [get : {TRUE}, auto_repeat_mode : Opt(EnumDom), controls : {Ok("controls")},
     flags : FlagAnswers, is_shuffle_active : Opt(BOOLEAN),
     playback_rate : Opt({100}), playback_status : Opt(EnumDom),
     playback_type : Opt(EnumDom)]
    \cup [get : {TRUE}, auto_repeat_mode : Opt(EnumDom), controls : {Err},
          flags : {BasePlayback.flags}, is_shuffle_active : Opt(BOOLEAN),
          playback_rate : Opt({100}), playback_status : Opt(EnumDom),
          playback_type : Opt(EnumDom)]
    \cup {[BasePlayback EXCEPT !.get = FALSE]}

BaseTimeline ==
    [get |-> TRUE, start_time |-> Ok(0), end_time |-> Ok(0), max_seek_time |-> Ok(0),
     min_seek_time |-> Ok(0), position |-> Ok(0), last_updated_time |-> Ok(0)]

TimelineInputs ==
    [get : {TRUE}, start_time : Opt({0, -5}), end_time : Opt({0, 5}),
     max_seek_time : Opt({0, 5}), min_seek_time : Opt({0}), position : Opt({0, 3}),
     last_updated_time : Opt({0, 7})]
    \cup {[BaseTimeline EXCEPT !.get = FALSE]}

\* the answers that differ from `base` in at most one read
SingleFault(S, base) ==
    {x \in S : \E f \in DOMAIN x : \A g \in DOMAIN x \ {f} : x[g] = base[g]}

MainMediaInputs == SingleFault(MediaInputs, BaseMedia)
MainPlaybackInputs == SingleFault(PlaybackInputs, BasePlayback)
MainTimelineInputs == TimelineInputs

AppIds == {"Spotify.exe"}

Printers == {"media", "playback", "timeline"}

(***************************************************************************)
(* main                                                                    *)
(***************************************************************************)
Init ==
    /\ pc = "request"
    /\ status = [manager |-> "pending", session |-> "pending", app_id |-> "pending"]
    /\ out = <<>>
    /\ stderr = <<>>
    /\ exit = <<>>
    /\ called = <<>>
    /\ depth = [p \in Printers |-> 0]
    /\ ret = [p \in Printers |-> [lines |-> <<>>, res |-> NotCalled]]
    /\ mp = BaseMedia
    /\ pb = BasePlayback
    /\ tl = BaseTimeline

\* main returns Err(e): the runtime prints the error to stderr and exits with 1
ReturnErr(e) ==
    /\ pc' = "done"
    /\ exit' = <<1>>
    /\ stderr' = Append(stderr, "Error: " \o e)

\* line 11: GSMTCSessionManager::RequestAsync()?.await?
RequestAsync ==
    /\ pc = "request"
    /\ \E ok \in BOOLEAN :
         IF ok
         THEN /\ status' = [status EXCEPT !.manager = "ok"]
              /\ pc' = "get_session"
              /\ UNCHANGED <<exit, stderr>>
         ELSE /\ status' = [status EXCEPT !.manager = "err"]
              /\ ReturnErr("RequestAsync")
    /\ UNCHANGED <<out, called, depth, ret, mp, pb, tl>>

GetCurrentSession_unchecked ==
    /\ pc = "get_session"
    /\ \E ok \in BOOLEAN :
         /\ status' = [status EXCEPT !.session = IF ok THEN "ok" ELSE "err"]
         /\ pc' = "app_id"
         /\ UNCHANGED <<exit, stderr>>
    /\ UNCHANGED <<out, called, depth, ret, mp, pb, tl>>

\* line 12: session_manager.GetCurrentSession()?
GetCurrentSession ==
    /\ pc = "get_session"
    /\ \E ok \in BOOLEAN :
         IF ok
         THEN /\ status' = [status EXCEPT !.session = "ok"]
              /\ pc' = "app_id"
              /\ UNCHANGED <<exit, stderr>>
         ELSE /\ status' = [status EXCEPT !.session = "err"]
              /\ ReturnErr("GetCurrentSession")
    /\ UNCHANGED <<out, called, depth, ret, mp, pb, tl>>

\* lines 14-19: the application id, a blank line, the first section's header
SourceAppUserModelId ==
    /\ pc = "app_id"
    /\ \E r \in Opt(AppIds) :
         IF IsOk(r)
         THEN /\ status' = [status EXCEPT !.app_id = "ok"]
              /\ out' = out \o << "app_user_model_id: \"" \o r[1] \o "\"", "",
                                  "media_properties:" >>
              /\ pc' = "media"
              /\ UNCHANGED <<exit, stderr>>
         ELSE /\ status' = [status EXCEPT !.app_id = "err"]
              /\ ReturnErr("SourceAppUserModelId")
              /\ UNCHANGED out
    /\ UNCHANGED <<called, depth, ret, mp, pb, tl>>

AfterCall_try(r) ==
    CASE r.res.tag = "Panic" -> "panic"
      [] r.res.tag = "Err" -> "return"
      [] OTHER -> "continue"

AfterCall_unwrap(r) ==
    IF r.res.tag \in {"Panic", "Err"} THEN "panic" ELSE "continue"

\* `let _ = print_..(..)`: what main does once the printer has ended
AfterCall(r) == IF r.res.tag = "Panic" THEN "panic" ELSE "continue"

\* `let _ = print_..(..)`: what the call site itself writes to stdout
CallSiteOutput(r) == <<>>

\* a call of printer p with depth d that ended as r, then the lines main prints
\* up to the next call (trailer), or the return of main (next = "done")
Call(p, d, r, trailer, next) ==
    LET flow == AfterCall(r) IN
    /\ called' = Append(called, p)
    /\ depth' = [depth EXCEPT ![p] = d]
    /\ ret' = [ret EXCEPT ![p] = r]
    /\ out' = (out \o r.lines)
                \o (IF flow = "panic" THEN <<>> ELSE CallSiteOutput(r))
                \o (IF flow = "continue" THEN trailer ELSE <<>>)
    /\ pc' = IF flow = "continue" THEN next ELSE "done"
    /\ exit' = CASE flow = "panic" -> <<101>>
                 [] flow = "return" -> <<1>>
                 [] OTHER -> IF next = "done" THEN <<0>> ELSE exit
    /\ stderr' = CASE flow = "panic" -> Append(stderr, "thread 'main' panicked: " \o r.res.e)
                   [] flow = "return" -> Append(stderr, "Error: " \o r.res.e)
                   [] OTHER -> stderr

\* lines 20-22
CallMedia ==
    /\ pc = "media"
    /\ \E x \in MainMediaInputs :
         /\ mp' = x
         /\ Call("media", 1, print_media_properties(x, 1), <<"    playback_info:">>,
                 "playback")
    /\ UNCHANGED <<status, pb, tl>>

\* lines 23-26
CallPlayback ==
    /\ pc = "playback"
    /\ \E x \in MainPlaybackInputs :
         /\ pb' = x
         /\ Call("playback", 2, print_playback_info(x, 2),
                 <<"", "    timeline_properties:">>, "timeline")
    /\ UNCHANGED <<status, mp, tl>>

\* lines 27-29
CallTimeline ==
    /\ pc = "timeline"
    /\ \E x \in MainTimelineInputs :
         /\ tl' = x
         /\ Call("timeline", 2, print_timeline_properties(x, 2), <<>>, "done")
    /\ UNCHANGED <<status, mp, pb>>

Next ==
    \/ RequestAsync
    \/ GetCurrentSession
    \/ SourceAppUserModelId
    \/ CallMedia
    \/ CallPlayback
    \/ CallTimeline

Spec == Init /\ [][Next]_vars

(***************************************************************************)
(* The printers on their own: one call of one printer, with any depth and  *)
(* any answers of the platform.                                            *)
(***************************************************************************)
InitPrinters ==
    /\ pc = "harness"
    /\ status = [manager |-> "ok", session |-> "ok", app_id |-> "ok"]
    /\ out = <<>>
    /\ stderr = <<>>
    /\ exit = <<>>
    /\ called = <<>>
    /\ depth = [p \in Printers |-> 0]
    /\ ret = [p \in Printers |-> [lines |-> <<>>, res |-> NotCalled]]
    /\ mp = BaseMedia
    /\ pb = BasePlayback
    /\ tl = BaseTimeline

Ran(p, d, r) ==
    /\ pc' = "harness_done"
    /\ called' = <<p>>
    /\ depth' = [depth EXCEPT ![p] = d]
    /\ ret' = [ret EXCEPT ![p] = r]
    /\ out' = r.lines
    /\ UNCHANGED <<status, stderr, exit>>

RunMedia ==
    /\ pc = "harness"
    /\ \E d \in 0..MaxDepth, x \in MediaInputs :
         mp' = x /\ Ran("media", d, print_media_properties(x, d))
    /\ UNCHANGED <<pb, tl>>

RunPlayback ==
    /\ pc = "harness"
    /\ \E d \in 0..MaxDepth, x \in PlaybackInputs :
         pb' = x /\ Ran("playback", d, print_playback_info(x, d))
    /\ UNCHANGED <<mp, tl>>

RunTimeline ==
    /\ pc = "harness"
    /\ \E d \in 0..MaxDepth, x \in TimelineInputs :
         tl' = x /\ Ran("timeline", d, print_timeline_properties(x, d))
    /\ UNCHANGED <<mp, pb>>

NextPrinters ==
    \/ RunMedia
    \/ RunPlayback
    \/ RunTimeline

SpecPrinters == InitPrinters /\ [][NextPrinters]_vars

(***************************************************************************)
(* Reading the output back.                                                *)
(***************************************************************************)
RECURSIVE LeadingSpacesFrom(_, _)
LeadingSpacesFrom(s, i) ==
    IF i <= Len(s) /\ SubSeq(s, i, i) = " " THEN LeadingSpacesFrom(s, i + 1) ELSE i - 1

LeadingSpaces(s) == LeadingSpacesFrom(s, 1)
Trim(s) == SubSeq(s, LeadingSpaces(s) + 1, Len(s))
StartsWith(s, p) == Len(s) >= Len(p) /\ SubSeq(s, 1, Len(p)) = p
EndsWith(s, p) == Len(s) >= Len(p) /\ SubSeq(s, Len(s) - Len(p) + 1, Len(s)) = p

\* the positions in `lines` of the lines of field `label`
Labelled(lines, label) ==
    {i \in 1..Len(lines) : StartsWith(Trim(lines[i]), label \o ":")}

HasCalled(p) == \E i \in 1..Len(called) : called[i] = p
Exited == exit # <<>>
EndedIn(p, tags) == ret[p].res.tag \in tags

\* the fields of `labels` all have a line, and their lines come in that order
InOrder(lines, labels) ==
    /\ \A k \in 1..Len(labels) : Labelled(lines, labels[k]) # {}
    /\ \A k \in 1..(Len(labels) - 1) :
         \A i \in Labelled(lines, labels[k]), j \in Labelled(lines, labels[k + 1]) : i < j

AutoRepeatNames == <<"None", "Track", "List">>
StatusNames == <<"Closed", "Opened", "Changing", "Stopped", "Playing", "Paused">>
TypeNames == <<"Unknown", "Music", "Video", "Image">>

InRange(r, names) == r # Err /\ r[1] \in 0..(Len(names) - 1)
OutOfRange(r, names) == r # Err /\ r[1] \notin 0..(Len(names) - 1)

\* no enum value the platform answers lies outside its table
PlaybackEnumsKnown ==
    /\ ~OutOfRange(pb.auto_repeat_mode, AutoRepeatNames)
    /\ ~OutOfRange(pb.playback_status, StatusNames)
    /\ ~OutOfRange(pb.playback_type, TypeNames)

MediaReadFailed ==
    \/ ~mp.fetch
    \/ \E f \in {"album_artist", "album_title", "album_track_count", "artist", "genres",
                 "playback_type", "subtitle", "thumbnail", "title", "track_number"} :
          mp[f] = Err

\* every platform read of the run succeeds
AllReadsOk ==
    /\ \A k \in DOMAIN status : status[k] = "ok"
    /\ ~MediaReadFailed /\ mp.content_type # Err /\ mp.size # Err
    /\ pb.get /\ \A i \in DOMAIN pb.flags : pb.flags[i] # Err
    /\ \A f \in {"auto_repeat_mode", "controls", "is_shuffle_active", "playback_rate",
                 "playback_status", "playback_type"} : pb[f] # Err
    /\ tl.get
    /\ \A f \in {"start_time", "end_time", "max_seek_time", "min_seek_time", "position",
                 "last_updated_time"} : tl[f] # Err

(***************************************************************************)
(* C1.  If GetCurrentSession fails, the process exits with a non-zero      *)
(* status and none of the three printers is ever started.                  *)
(***************************************************************************)
C1_NoSessionNoPrinters ==
    status.session = "err" =>
        /\ Exited /\ exit[1] # 0
        /\ pc = "done"
        /\ called = <<>>
        /\ \A p \in Printers : ret[p].res = NotCalled
        /\ out = <<>>

C1_Witness == status.session = "err" /\ exit = <<1>> /\ stderr # <<>>

(***************************************************************************)
(* C2.  As claimed: in every run where the media-properties fetch fails,   *)
(* the playback-info printer and then the timeline-properties printer are  *)
(* executed and run to completion (each returns, with Ok or an error).     *)
(***************************************************************************)
C2_Original ==
    (Exited /\ HasCalled("media") /\ ~mp.fetch) =>
        /\ called = <<"media", "playback", "timeline">>
        /\ EndedIn("playback", {"Ok", "Err"})
        /\ EndedIn("timeline", {"Ok", "Err"})

(***************************************************************************)
(* C2, amended.  In every run where the media-properties fetch fails, the  *)
(* playback-info printer is still executed; unless it aborts on an enum    *)
(* value outside its table, it returns and the timeline-properties printer *)
(* is executed and returns, and the process exits with 0.                  *)
(***************************************************************************)
C2_Amended ==
    (Exited /\ HasCalled("media") /\ ~mp.fetch) =>
        /\ ret["media"].lines = <<>>
        /\ Len(called) >= 2 /\ called[2] = "playback"
        /\ EndedIn("playback", {"Ok", "Err", "Panic"})
        /\ EndedIn("playback", {"Panic"}) => ~PlaybackEnumsKnown /\ exit = <<101>>
        /\ EndedIn("playback", {"Ok", "Err"}) =>
               /\ called = <<"media", "playback", "timeline">>
               /\ EndedIn("timeline", {"Ok", "Err"})
               /\ exit = <<0>>

C2_Witness ==
    /\ exit = <<0>> /\ ~mp.fetch /\ ret["media"].res.tag = "Err"
    /\ called = <<"media", "playback", "timeline">>
    /\ ret["playback"].res.tag = "Ok" /\ ret["timeline"].res.tag = "Ok"

(***************************************************************************)
(* C3.  As claimed: once GetCurrentSession has returned a session, the     *)
(* process exits with code 0 whatever later read fails.                    *)
(***************************************************************************)
C3_Original == (Exited /\ status.session = "ok") => exit = <<0>>

(***************************************************************************)
(* C3, amended.  Once the session is acquired and the source application   *)
(* identifier is read, the process exits with code 0 whatever read fails   *)
(* inside the three printers, unless a printer aborts on an enum value     *)
(* outside its table; a failed read of the identifier exits with 1.        *)
(***************************************************************************)
C3_Amended ==
    Exited =>
        /\ (status.app_id = "ok" /\ \A p \in Printers : ret[p].res.tag # "Panic")
              => exit = <<0>>
        /\ status.app_id = "err" => (exit = <<1>> /\ called = <<>> /\ out = <<>>)
        /\ (\E p \in Printers : ret[p].res.tag = "Panic") => exit = <<101>>

C3_Witness ==
    /\ exit = <<0>>
    /\ ret["media"].res.tag = "Err" /\ ret["playback"].res.tag = "Err"
    /\ ret["timeline"].res.tag = "Err"

(***************************************************************************)
(* C4.  As claimed: in a run where every platform read succeeds (and no    *)
(* enum value is outside its table), the lines come in the order           *)
(* app_user_model_id, playback_status, is_shuffle_active, title,           *)
(* content_type, size.                                                     *)
(***************************************************************************)
C4_Original ==
    (Exited /\ AllReadsOk /\ exit = <<0>>) =>
        InOrder(out, <<"app_user_model_id", "playback_status", "is_shuffle_active",
                       "title", "content_type", "size">>)

(***************************************************************************)
(* C4, amended.  In a run where every platform read succeeds and no enum   *)
(* value is outside its table, the lines come in the order                 *)
(* app_user_model_id, content_type, size, title, is_shuffle_active,        *)
(* playback_status.                                                        *)
(***************************************************************************)
C4_Amended ==
    (Exited /\ AllReadsOk /\ PlaybackEnumsKnown /\ ~OutOfRange(mp.playback_type, TypeNames)) =>
        /\ exit = <<0>>
        /\ InOrder(out, <<"app_user_model_id", "content_type", "size", "title",
                          "is_shuffle_active", "playback_status">>)

C4_Witness ==
    /\ exit = <<0>> /\ AllReadsOk
    /\ mp.playback_type = Ok(3) /\ pb.playback_status = Ok(4)
    /\ tl.position = Ok(3)

(***************************************************************************)
(* C6.  Whenever the media-properties printer fails, the failure is caught *)
(* at the call site in main and its error text is written to the output    *)
(* stream before the next section is printed.                              *)
(***************************************************************************)
C6_ErrorTextLogged ==
    (HasCalled("media") /\ EndedIn("media", {"Err"})) =>
        \E i \in 1..Len(out), j \in 1..Len(out) :
            /\ i < j
            /\ EndsWith(out[i], ret["media"].res.e)
            /\ out[j] = "    playback_info:"

(***************************************************************************)
(* C10.  The timeline-properties printer emits either exactly the six      *)
(* lines start_time, end_time, max_seek_time, min_seek_time, position,     *)
(* last_updated_time in that order, or no line at all when the snapshot    *)
(* fetch or one of the six reads fails; its failure leaves the exit code 0.*)
(***************************************************************************)
TimelineLabels == <<"start_time", "end_time", "max_seek_time", "min_seek_time",
                    "position", "last_updated_time">>

TimelineReadFailed == ~tl.get \/ \E i \in 1..Len(TimelineLabels) : tl[TimelineLabels[i]] = Err

C10_TimelineAllOrNothing ==
    LET lines == ret["timeline"].lines IN
    /\ ~HasCalled("timeline") => \A i \in 1..Len(TimelineLabels) :
                                    Labelled(out, TimelineLabels[i]) = {}
    /\ HasCalled("timeline") =>
         /\ SubSeq(out, Len(out) - Len(lines) + 1, Len(out)) = lines
         /\ out[Len(out) - Len(lines)] = "    timeline_properties:"
         /\ TimelineReadFailed => (lines = <<>> /\ EndedIn("timeline", {"Err"}))
         /\ ~TimelineReadFailed =>
               /\ Len(lines) = Len(TimelineLabels)
               /\ \A i \in 1..Len(TimelineLabels) :
                     StartsWith(lines[i], Prefix(2) \o TimelineLabels[i] \o ": ")
         /\ exit = <<0>>

C10_Witness ==
    /\ HasCalled("timeline") /\ tl.get /\ tl.start_time # Err /\ tl.position = Err
    /\ ret["timeline"].res.tag = "Err" /\ exit = <<0>>

(***************************************************************************)
(* C5.  In the playback-info printer each field read is isolated: for      *)
(* every set of fields whose read fails, exactly the lines of those fields *)
(* are missing and the line of every field whose read succeeds is printed. *)
(* (Stated for a fetched snapshot whose enum values are in their tables.)  *)
(***************************************************************************)
C5_FieldsIsolated ==
    (called = <<"playback">> /\ pb.get /\ PlaybackEnumsKnown) =>
        \A f \in {"auto_repeat_mode", "controls", "is_shuffle_active", "playback_rate",
                  "playback_status", "playback_type"} :
            (Labelled(out, f) # {}) <=> (pb[f] # Err)

(***************************************************************************)
(* C7.  Enum rendering: auto-repeat mode maps 0,1,2 to None,Track,List;    *)
(* playback status maps 0..5 to Closed,Opened,Changing,Stopped,Playing,    *)
(* Paused; playback type maps 0..3 to Unknown,Music,Video,Image; for any   *)
(* other integer the printer aborts and prints no name for it.             *)
(***************************************************************************)
\* every line of field f shows the table's name of the value read, in range
EnumLines(f, r, names, quote) ==
    \A i \in Labelled(out, f) :
        /\ InRange(r, names)
        /\ Trim(out[i]) = f \o ": " \o quote \o names[r[1] + 1] \o quote

\* print_playback_info gets as far as the playback status
StatusReached ==
    /\ pb.get /\ ~OutOfRange(pb.auto_repeat_mode, AutoRepeatNames)
    /\ pb.controls = Err \/ \A i \in DOMAIN pb.flags : pb.flags[i] # Err

C7_EnumRendering ==
    /\ called = <<"playback">> =>
         /\ EnumLines("auto_repeat_mode", pb.auto_repeat_mode, AutoRepeatNames, "\"")
         /\ EnumLines("playback_status", pb.playback_status, StatusNames, "\"")
         /\ EnumLines("playback_type", pb.playback_type, TypeNames, "\"")
         /\ (pb.get /\ InRange(pb.auto_repeat_mode, AutoRepeatNames))
               => Labelled(out, "auto_repeat_mode") # {}
         /\ (pb.get /\ OutOfRange(pb.auto_repeat_mode, AutoRepeatNames))
               => (EndedIn("playback", {"Panic"}) /\ out = <<>>)
         /\ (StatusReached /\ OutOfRange(pb.playback_status, StatusNames))
               => EndedIn("playback", {"Panic"})
         /\ (StatusReached /\ ~OutOfRange(pb.playback_status, StatusNames)
                /\ OutOfRange(pb.playback_type, TypeNames))
               => EndedIn("playback", {"Panic"})
         /\ EndedIn("playback", {"Ok"}) =>
               \A f \in {"auto_repeat_mode", "playback_status", "playback_type"} :
                   pb[f] # Err => Labelled(out, f) # {}
         /\ EndedIn("playback", {"Panic"}) =>
               \/ OutOfRange(pb.auto_repeat_mode, AutoRepeatNames)
                    /\ Labelled(out, "auto_repeat_mode") = {}
               \/ OutOfRange(pb.playback_status, StatusNames)
                    /\ Labelled(out, "playback_status") = {}
               \/ OutOfRange(pb.playback_type, TypeNames)
                    /\ Labelled(out, "playback_type") = {}
    /\ called = <<"media">> =>
         /\ EnumLines("playback_type", mp.playback_type, TypeNames, "")
         /\ EndedIn("media", {"Ok"}) => Labelled(out, "playback_type") # {}
         /\ (~MediaReadFailed /\ OutOfRange(mp.playback_type, TypeNames))
               => EndedIn("media", {"Panic"})
         /\ EndedIn("media", {"Panic"}) =>
               /\ OutOfRange(mp.playback_type, TypeNames)
               /\ Labelled(out, "playback_type") = {}

C7_Witness ==
    /\ called = <<"playback">>
    /\ pb.auto_repeat_mode = Ok(2) /\ Labelled(out, "auto_repeat_mode") # {}
    /\ pb.playback_status = Ok(MaxEnum) /\ ret["playback"].res.tag = "Panic"

(***************************************************************************)
(* C8.  For a printer called with depth d, every line it emits at that     *)
(* depth starts with exactly 4*d spaces, and the lines of a nested level   *)
(* (thumbnail fields, controls flags, genre bullets) with 4 more.          *)
(***************************************************************************)
IsNestedLine(l) ==
    \/ StartsWith(Trim(l), "content_type:")
    \/ StartsWith(Trim(l), "size:")
    \/ StartsWith(Trim(l), "- ")
    \/ \E k \in 1..Len(ControlFlags) : StartsWith(Trim(l), ControlFlags[k] \o ":")

C8_Indentation ==
    pc = "harness_done" =>
        \A i \in 1..Len(out) :
            LeadingSpaces(out[i]) =
                4 * (depth[called[1]] + (IF IsNestedLine(out[i]) THEN 1 ELSE 0))

(***************************************************************************)
(* C9.  As claimed: the media-properties printer emits no line at all if   *)
(* the metadata fetch, a metadata read or the thumbnail open fails; the    *)
(* only way it emits a partial block is a failure of the thumbnail's       *)
(* content-type or size read, after the lines up to "thumbnail:".          *)
(***************************************************************************)
MediaPartial == ret["media"].lines # <<>> /\ ~EndedIn("media", {"Ok"})

ThumbnailAttrFailed ==
    /\ EndedIn("media", {"Err"})
    /\ mp.content_type = Err \/ mp.size = Err
    /\ Labelled(out, "thumbnail") # {}
    /\ Labelled(out, "content_type") # {} <=> mp.content_type # Err
    /\ Labelled(out, "size") = {} /\ Labelled(out, "title") = {}
    /\ Labelled(out, "track_number") = {}

C9_Original ==
    called = <<"media">> =>
        /\ MediaReadFailed => (out = <<>> /\ EndedIn("media", {"Err"}))
        /\ MediaPartial => ThumbnailAttrFailed

(***************************************************************************)
(* C9, amended.  The media-properties printer emits no line at all if the  *)
(* metadata fetch, a metadata read or the thumbnail open fails.  It emits  *)
(* a partial block in two ways only: a failure of the thumbnail's          *)
(* content-type or size read, after the lines up to "thumbnail:", or an    *)
(* abort on a playback type outside its table, after the genre lines.      *)
(* Otherwise it prints the whole block.                                    *)
(***************************************************************************)
C9_Amended ==
    called = <<"media">> =>
        /\ MediaReadFailed => (out = <<>> /\ EndedIn("media", {"Err"}))
        /\ MediaPartial =>
             \/ ThumbnailAttrFailed
             \/ /\ EndedIn("media", {"Panic"})
                /\ OutOfRange(mp.playback_type, TypeNames)
                /\ Len(out) = 5 + Len(mp.genres[1])
                /\ Labelled(out, "genres") = {5}
                /\ Labelled(out, "playback_type") = {}
        /\ EndedIn("media", {"Ok"}) =>
             /\ ~MediaReadFailed /\ mp.content_type # Err /\ mp.size # Err
             /\ Len(out) = 12 + Len(mp.genres[1])
             /\ InOrder(out, <<"album_artist", "album_title", "album_track_count",
                               "artist", "genres", "playback_type", "subtitle",
                               "thumbnail", "content_type", "size", "title",
                               "track_number">>)
        /\ (~MediaReadFailed /\ InRange(mp.playback_type, TypeNames)
              /\ mp.content_type # Err /\ mp.size # Err) => EndedIn("media", {"Ok"})

C9_Witness ==
    /\ called = <<"media">> /\ ret["media"].res.tag = "Panic"
    /\ Len(out) = 5 + MaxGenres /\ mp.content_type = Err

====
